---- MODULE Spec2Model ----
(***************************************************************************)
(* LinkedIn MCP server: the service worker's JSON-RPC transport            *)
(* (sw.js: handleMCPRequest over createMCPServerInstance) and the page's   *)
(* MCPServer class (mcpServer.js).  JavaScript values are modelled as      *)
(* tagged trees so that property reads, truthiness, string conversion and  *)
(* JSON serialisation behave as the language defines them.                 *)
(***************************************************************************)
EXTENDS Integers, Sequences, FiniteSets, TLC

\* Largest value of the wall clock (milliseconds since the epoch).
MaxClock == 1

(***************************************************************************)
(* JavaScript values.                                                      *)
(***************************************************************************)
Undef == [k |-> "undefined"]
Null == [k |-> "null"]
NaN == [k |-> "NaN"]
Fn == [k |-> "function"]
Bool(b) == [k |-> "boolean", b |-> b]
Num(n) == [k |-> "number", n |-> n]
Str(s) == [k |-> "string", s |-> s]
Arr(items) == [k |-> "array", items |-> items]
Obj(members) == [k |-> "object", members |-> members]
M(key, val) == [key |-> key, val |-> val]

\* A completion: a returned value or a thrown Error with its message.
Ok(v) == [ok |-> TRUE, val |-> v]
Throw(msg) == [ok |-> FALSE, msg |-> msg]

\* ToBoolean: the test behind ||, ! and ?:.
Truthy(v) ==
    CASE v.k \in {"undefined", "null", "NaN"} -> FALSE
      [] v.k = "boolean" -> v.b
      [] v.k = "number" -> v.n # 0
      [] v.k = "string" -> v.s # ""
      [] OTHER -> TRUE

\* a || b
Or(a, b) == IF Truthy(a) THEN a ELSE b

\* Own keys of an object literal, in insertion order.
HasOwn(o, key) ==
    /\ o.k = "object"
    /\ \E i \in 1..Len(o.members) : o.members[i].key = key

\* o.key for a value that is neither null nor undefined: an own member of an
\* object, undefined otherwise (none of the keys read from request data is
\* inherited by a primitive, an array or a parsed object).
Get(o, key) ==
    IF HasOwn(o, key)
    THEN o.members[CHOOSE i \in 1..Len(o.members) : o.members[i].key = key].val
    ELSE Undef

\* o.key = val on an object: replaces the member or appends it.
Put(o, key, val) ==
    IF HasOwn(o, key)
    THEN Obj([i \in 1..Len(o.members) |->
                 IF o.members[i].key = key THEN M(key, val) ELSE o.members[i]])
    ELSE Obj(Append(o.members, M(key, val)))

\* The TypeError of reading a property of null or undefined.
ReadError(v, key) ==
    "Cannot read properties of " \o v.k \o " (reading '" \o key \o "')"

Nullish(v) == v.k \in {"undefined", "null"}

RECURSIVE Unconvertible(_)
\* ToPrimitive throws a TypeError: an object whose own toString member hides
\* Object.prototype.toString (a parsed member is never callable, and valueOf
\* returns the object itself), or an array that joins such an object.
Unconvertible(v) ==
    \/ HasOwn(v, "toString")
    \/ /\ v.k = "array"
       /\ \E i \in 1..Len(v.items) :
              ~Nullish(v.items[i]) /\ Unconvertible(v.items[i])

ConversionError == "Cannot convert object to primitive value"

RECURSIVE JSToString(_)
RECURSIVE JoinItems(_, _)
\* Array.prototype.join(","): null and undefined elements give "".
JoinItems(items, i) ==
    IF i > Len(items) THEN ""
    ELSE (IF i > 1 THEN "," ELSE "")
         \o (IF Nullish(items[i]) THEN "" ELSE JSToString(items[i]))
         \o JoinItems(items, i + 1)

\* ToString, as applied by string concatenation and by property keys, of a
\* value that can be converted.
JSToString(v) ==
    CASE v.k = "undefined" -> "undefined"
      [] v.k = "null" -> "null"
      [] v.k = "NaN" -> "NaN"
      [] v.k = "boolean" -> IF v.b THEN "true" ELSE "false"
      [] v.k = "number" -> ToString(v.n)
      [] v.k = "string" -> v.s
      [] v.k = "array" -> JoinItems(v.items, 1)
      [] v.k = "object" -> "[object Object]"
      [] OTHER -> "function () { [native code] }"

\* a + b with a string on the left.
Concat(s, v) == s \o JSToString(v)

Digits == "0123456789"
DigitOf(c) == CHOOSE d \in 0..9 : SubSeq(Digits, d + 1, d + 1) = c
IsDigit(c) == \E d \in 0..9 : SubSeq(Digits, d + 1, d + 1) = c

RECURSIVE ParseDigits(_, _, _)
ParseDigits(s, i, acc) ==
    IF i > Len(s) THEN Num(acc)
    ELSE IF IsDigit(SubSeq(s, i, i))
         THEN ParseDigits(s, i + 1, 10 * acc + DigitOf(SubSeq(s, i, i)))
         ELSE NaN

\* ToNumber on the kinds of value a tool argument can hold (strings: plain
\* decimal digits, anything else is NaN).
ToNumber(v) ==
    CASE v.k = "number" -> v
      [] v.k = "NaN" -> NaN
      [] v.k = "undefined" -> NaN
      [] v.k = "null" -> Num(0)
      [] v.k = "boolean" -> Num(IF v.b THEN 1 ELSE 0)
      [] v.k = "string" -> ParseDigits(v.s, 1, 0)
      [] v.k = "array" -> IF Len(v.items) = 0 THEN Num(0)
                          ELSE IF Len(v.items) = 1 THEN ParseDigits(JSToString(v), 1, 0)
                          ELSE NaN
      [] OTHER -> NaN

\* Math.min(a, b): NaN if either operand converts to NaN.
MathMin(a, b) ==
    LET x == ToNumber(a)
        y == ToNumber(b)
    IN  IF x.k = "NaN" \/ y.k = "NaN" THEN NaN
        ELSE IF x.n <= y.n THEN x ELSE y

RECURSIVE Pow(_, _)
\* Math.pow on non-negative integer exponents.
Pow(b, e) == IF e = 0 THEN 1 ELSE b * Pow(b, e - 1)

Upper == "ABCDEFGHIJKLMNOPQRSTUVWXYZ"
Lower == "abcdefghijklmnopqrstuvwxyz"
LowerChar(c) ==
    IF \E i \in 1..26 : SubSeq(Upper, i, i) = c
    THEN LET i == CHOOSE j \in 1..26 : SubSeq(Upper, j, j) = c
         IN  SubSeq(Lower, i, i)
    ELSE c

RECURSIVE ToLowerCase(_)
\* String.prototype.toLowerCase (the string is halved to keep the evaluation
\* shallow).
ToLowerCase(s) ==
    IF Len(s) <= 1 THEN LowerChar(s)
    ELSE ToLowerCase(SubSeq(s, 1, Len(s) \div 2))
         \o ToLowerCase(SubSeq(s, Len(s) \div 2 + 1, Len(s)))

IsSpace(c) == c \in {" ", "\t", "\n", "\r"}

RECURSIVE ReplaceRange(_, _, _)
\* The replacement of s[lo..hi]: a white-space character that starts a run
\* becomes '-', the rest of the run disappears.
ReplaceRange(s, lo, hi) ==
    IF lo > hi THEN ""
    ELSE IF lo = hi
    THEN LET c == SubSeq(s, lo, lo)
         IN  IF ~IsSpace(c) THEN c
             ELSE IF lo > 1 /\ IsSpace(SubSeq(s, lo - 1, lo - 1)) THEN ""
             ELSE "-"
    ELSE ReplaceRange(s, lo, (lo + hi) \div 2)
         \o ReplaceRange(s, (lo + hi) \div 2 + 1, hi)

\* s.replace(/\s+/g, '-'): every maximal run of white space becomes one '-'.
ReplaceSpaces(s) == ReplaceRange(s, 1, Len(s))

\* s contains q as a substring (String.prototype.includes).
Includes(s, q) ==
    \E i \in 1..(Len(s) - Len(q) + 1) : SubSeq(s, i, i + Len(q) - 1) = q

\* One character of a JSON string literal: '"', '\' and control characters
\* are escaped.
QuoteChar(c) ==
    IF c = "\"" THEN "\\\""
    ELSE IF c = "\\" THEN "\\\\"
    ELSE IF c = "\n" THEN "\\n"
    ELSE IF c = "\t" THEN "\\t"
    ELSE c

RECURSIVE Quote(_)
\* The body of a JSON string literal (the string is halved to keep the
\* evaluation shallow).
Quote(s) ==
    IF Len(s) <= 1 THEN QuoteChar(s)
    ELSE Quote(SubSeq(s, 1, Len(s) \div 2))
         \o Quote(SubSeq(s, Len(s) \div 2 + 1, Len(s)))

\* JSON.stringify omits members whose value is undefined or a function.
Serializable(v) == v.k \notin {"undefined", "function"}

RECURSIVE Ser(_, _, _)
RECURSIVE SerItems(_, _, _, _)
RECURSIVE SerMembers(_, _, _, _, _)
SerItems(items, i, pretty, ind) ==
    IF i > Len(items) THEN ""
    ELSE (IF i > 1 THEN (IF pretty THEN ",\n" ELSE ",") ELSE "")
         \o ind
         \o (IF Serializable(items[i]) THEN Ser(items[i], pretty, ind) ELSE "null")
         \o SerItems(items, i + 1, pretty, ind)

SerMembers(ms, i, first, pretty, ind) ==
    IF i > Len(ms) THEN ""
    ELSE IF ~Serializable(ms[i].val) THEN SerMembers(ms, i + 1, first, pretty, ind)
    ELSE (IF first THEN "" ELSE (IF pretty THEN ",\n" ELSE ","))
         \o ind \o "\"" \o Quote(ms[i].key) \o "\":" \o (IF pretty THEN " " ELSE "")
         \o Ser(ms[i].val, pretty, ind)
         \o SerMembers(ms, i + 1, FALSE, pretty, ind)

\* The serialisation of one value at indentation ind.
Ser(v, pretty, ind) ==
    LET inner == IF pretty THEN ind \o "  " ELSE ""
        open == IF pretty THEN "\n" ELSE ""
        close == IF pretty THEN "\n" \o ind ELSE ""
    IN  CASE v.k = "null" -> "null"
          [] v.k = "NaN" -> "null"
          [] v.k = "boolean" -> IF v.b THEN "true" ELSE "false"
          [] v.k = "number" -> ToString(v.n)
          [] v.k = "string" -> "\"" \o Quote(v.s) \o "\""
          [] v.k = "array" ->
                IF Len(v.items) = 0 THEN "[]"
                ELSE "[" \o open \o SerItems(v.items, 1, pretty, inner) \o close \o "]"
          [] v.k = "object" ->
                IF \A i \in 1..Len(v.members) : ~Serializable(v.members[i].val)
                THEN "{}"
                ELSE "{" \o open \o SerMembers(v.members, 1, TRUE, pretty, inner)
                         \o close \o "}"

\* JSON.stringify(v) and JSON.stringify(v, null, 2) of an object or array.
JSONStringify(v, pretty) == Ser(v, pretty, "")

\* Date.now() and new Date().toISOString() at clock value t (t < 10 ms).
DateNow(t) == Num(t)
ToISOString(t) == "1970-01-01T00:00:00.00" \o ToString(t) \o "Z"

(***************************************************************************)
(* mcpServer.js: class MCPServer.                                          *)
(***************************************************************************)
SchemaObject(props, required) ==
    Obj(<<M("type", Str("object")), M("properties", Obj(props)),
          M("required", Arr(required))>>)

Descriptor(name, description, schema) ==
    Obj(<<M("name", Str(name)), M("description", Str(description)),
          M("inputSchema", schema)>>)

\* MCPServer.initializeTools(): this.tools, keyed by tool name.
initializeTools ==
    Obj(<<
      M("get_profile", Descriptor("get_profile",
          "Get LinkedIn profile information for the current user",
          SchemaObject(<<>>, <<>>))),
      M("create_post", Descriptor("create_post",
          "Create a new LinkedIn post",
          SchemaObject(<<
              M("text", Obj(<<M("type", Str("string")),
                              M("description", Str("The text content of the post"))>>)),
              M("visibility", Obj(<<M("type", Str("string")),
                  M("description", Str("Post visibility (PUBLIC or CONNECTIONS)")),
                  M("enum", Arr(<<Str("PUBLIC"), Str("CONNECTIONS")>>)),
                  M("default", Str("PUBLIC"))>>))>>,
            <<Str("text")>>))),
      M("search_organizations", Descriptor("search_organizations",
          "Search for LinkedIn organizations",
          SchemaObject(<<
              M("query", Obj(<<M("type", Str("string")),
                               M("description", Str("Search query for organizations"))>>)),
              M("limit", Obj(<<M("type", Str("number")),
                  M("description", Str("Maximum number of results to return")),
                  M("default", Num(10)), M("minimum", Num(1)),
                  M("maximum", Num(50))>>))>>,
            <<Str("query")>>))),
      M("get_organizations", Descriptor("get_organizations",
          "Get organizations the user has access to",
          SchemaObject(<<
              M("role", Obj(<<M("type", Str("string")),
                  M("description", Str("Filter by role (ADMINISTRATOR, MEMBER, etc.)")),
                  M("enum", Arr(<<Str("ADMINISTRATOR"), Str("MEMBER"),
                                  Str("CONTRIBUTOR")>>))>>))>>,
            <<>>)))
    >>)

\* Object.keys(o) and Object.values(o)
ObjectKeys(o) == Arr([i \in 1..Len(o.members) |-> Str(o.members[i].key)])
ObjectValues(o) == Arr([i \in 1..Len(o.members) |-> o.members[i].val])

\* Properties every object literal inherits from Object.prototype.
ObjectPrototypeKeys ==
    {"constructor", "toString", "toLocaleString", "valueOf", "hasOwnProperty",
     "isPrototypeOf", "propertyIsEnumerable", "__proto__", "__defineGetter__",
     "__defineSetter__", "__lookupGetter__", "__lookupSetter__"}

\* this.tools[toolName]: the key is converted to a string, and a key that is
\* not an own property is looked up on Object.prototype.
LookupTool(tools, toolName) ==
    LET key == JSToString(toolName)
    IN  IF HasOwn(tools, key) THEN Get(tools, key)
        ELSE IF key = "__proto__" THEN Obj(<<>>)
        ELSE IF key \in ObjectPrototypeKeys THEN Fn
        ELSE Undef

L10n(s) == Obj(<<M("localized", Obj(<<M("en_US", Str(s))>>))>>)

\* MCPServer.getProfile()
getProfile ==
    Ok(Obj(<<
      M("status", Str("demo")),
      M("message", Str("This is a demo response. Connect your LinkedIn app for real data.")),
      M("data", Obj(<<
          M("id", Str("sample-user-id")),
          M("firstName", L10n("Demo")),
          M("lastName", L10n("User")),
          M("headline", L10n("Professional using MCP Server")),
          M("industry", L10n("Technology")),
          M("location", L10n("San Francisco, CA")),
          M("profilePicture", Null),
          M("publicProfileUrl", Str("https://linkedin.com/in/demo-user"))>>))
    >>))

\* MCPServer.createPost(text, visibility) at clock value t.
createPost(text, visibilityArg, t) ==
    LET visibility == IF visibilityArg.k = "undefined" THEN Str("PUBLIC")
                      ELSE visibilityArg
    IN  IF Unconvertible(visibility) THEN Throw(ConversionError)
        ELSE
        Ok(Obj(<<
          M("status", Str("success")),
          M("message", Str(Concat("Post would be created with visibility: ", visibility))),
          M("data", Obj(<<
              M("text", text),
              M("id", Str(Concat("demo-post-", DateNow(t)))),
              M("status", Str("PUBLISHED")),
              M("visibility", visibility),
              M("createdAt", Str(ToISOString(t))),
              M("author", Str("demo-user-id"))>>))
        >>))

Industries ==
    <<"Technology", "Finance", "Healthcare", "Education", "Manufacturing">>
Locations ==
    <<"San Francisco, CA", "New York, NY", "Seattle, WA", "Austin, TX", "Boston, MA">>

\* The cap of searchOrganizations on the number of mock results.
MaxResults == 5
\* The limit used when the caller gives none.
DefaultLimit == 10

\* The iterations of `for (let i = 1; i <= Math.min(limit, 5); i++)`.
LoopCount(limit) ==
    LET m == MathMin(limit, Num(MaxResults))
    IN  IF m.k = "NaN" \/ m.n < 1 THEN 0 ELSE m.n

\* query.toLowerCase(): a TypeError unless query is a string.
QueryLower(query) ==
    IF Nullish(query) THEN Throw(ReadError(query, "toLowerCase"))
    ELSE IF query.k # "string" THEN Throw("query.toLowerCase is not a function")
    ELSE Ok(ToLowerCase(query.s))

\* One element of mockResults.
MockResult(query, i) ==
    Obj(<<
      M("id", Str(Concat("org-" \o ReplaceSpaces(QueryLower(query).val) \o "-",
                         Num(i)))),
      M("localizedName", Str(Concat(Concat("", query) \o " Organization ", Num(i)))),
      M("industry", Str(Industries[(i % 5) + 1])),
      M("employeeCountRange", Obj(<<M("start", Num(Pow(10, i))),
                                    M("end", Num(Pow(10, i + 1)))>>)),
      M("location", Str(Locations[(i % 5) + 1]))
    >>)

\* MCPServer.searchOrganizations(query, limit)
searchOrganizations(query, limitArg) ==
    LET limit == IF limitArg.k = "undefined" THEN Num(DefaultLimit) ELSE limitArg
        n == LoopCount(limit)
    IN  IF Unconvertible(limit) THEN Throw(ConversionError)
        ELSE IF n >= 1 /\ ~QueryLower(query).ok THEN Throw(QueryLower(query).msg)
        ELSE Ok(Obj(<<
               M("status", Str("demo")),
               M("message", Str("Demo search results. Connect LinkedIn API for real data.")),
               M("data", Obj(<<
                   M("elements", Arr([i \in 1..n |-> MockResult(query, i)])),
                   M("paging", Obj(<<M("total", Num(n)), M("count", Num(n)),
                                     M("start", Num(0))>>))>>))
             >>))

mockOrganizations ==
    <<Obj(<<M("organization", Str("urn:li:organization:demo123")),
            M("role", Str("ADMINISTRATOR")),
            M("state", Str("APPROVED")),
            M("organizationName", Str("Demo Tech Corp"))>>),
      Obj(<<M("organization", Str("urn:li:organization:demo456")),
            M("role", Str("MEMBER")),
            M("state", Str("APPROVED")),
            M("organizationName", Str("Sample Innovations Inc"))>>)>>

RECURSIVE FilterByRole(_, _)
\* orgs.filter(org => org.role === role)
FilterByRole(orgs, role) ==
    IF orgs = <<>> THEN <<>>
    ELSE (IF Get(Head(orgs), "role") = role THEN <<Head(orgs)>> ELSE <<>>)
         \o FilterByRole(Tail(orgs), role)

\* MCPServer.getOrganizations(role)
getOrganizations(roleArg) ==
    LET role == IF roleArg.k = "undefined" THEN Null ELSE roleArg
        filteredOrgs == IF Truthy(role) THEN FilterByRole(mockOrganizations, role)
                        ELSE mockOrganizations
    IN  Ok(Obj(<<
          M("status", Str("demo")),
          M("message", Str("Demo organization data. Connect LinkedIn API for real data.")),
          M("data", Obj(<<M("elements", Arr(filteredOrgs))>>))
        >>))

\* The registry test of handleToolsCall: `!this.tools[toolName]` is false.
ToolKnown(tools, toolName) == Truthy(LookupTool(tools, toolName))

\* Mutant: the unknown-tool envelope also carries a result.
UnknownToolError_WithResult(tools, toolName) ==
    Obj(<<M("jsonrpc", Str("2.0")),
          M("result", Null),
          M("error", Obj(<<
              M("code", Num(-32602)),
              M("message", Str(Concat("Unknown tool: ", toolName))),
              M("data", Obj(<<M("availableTools", ObjectKeys(tools))>>))>>))>>)

\* The -32602 envelope of MCPServer.handleToolsCall.
UnknownToolError(tools, toolName) ==
    Obj(<<M("jsonrpc", Str("2.0")),
          M("error", Obj(<<
              M("code", Num(-32602)),
              M("message", Str(Concat("Unknown tool: ", toolName))),
              M("data", Obj(<<M("availableTools", ObjectKeys(tools))>>))>>))>>)

\* The success envelope of handleToolsCall: the result as pretty-printed JSON
\* in a one-element content array.
ToolSuccess(result) ==
    Obj(<<M("jsonrpc", Str("2.0")),
          M("result", Obj(<<
              M("content", Arr(<<
                  Obj(<<M("type", Str("text")),
                        M("text", Str(JSONStringify(result, TRUE)))>>)>>))>>))>>)

\* The -32603 envelope of the catch block of MCPServer.handleToolsCall.
ToolFailure(msg, toolName, arguments_) ==
    Obj(<<M("jsonrpc", Str("2.0")),
          M("error", Obj(<<
              M("code", Num(-32603)),
              M("message", Str("Internal error: " \o msg)),
              M("data", Obj(<<M("tool", toolName),
                              M("arguments", arguments_)>>))>>))>>)

\* Mutant: the switch has no case for get_organizations.
SwitchCase_MissingCase(toolName) ==
    IF toolName \in {Str("get_profile"), Str("create_post"),
                     Str("search_organizations")}
    THEN toolName.s
    ELSE "default"

\* The case of `switch (toolName)` that runs (=== against the four labels).
SwitchCase(toolName) ==
    IF toolName \in {Str("get_profile"), Str("create_post"),
                     Str("search_organizations"), Str("get_organizations")}
    THEN toolName.s
    ELSE "default"

\* The try block of MCPServer.handleToolsCall: the executor's completion.
RunExecutor(toolName, arguments_, t) ==
    CASE SwitchCase(toolName) = "get_profile" -> getProfile
      [] SwitchCase(toolName) = "create_post" ->
            createPost(Get(arguments_, "text"),
                       Or(Get(arguments_, "visibility"), Str("PUBLIC")), t)
      [] SwitchCase(toolName) = "search_organizations" ->
            searchOrganizations(Get(arguments_, "query"),
                                Or(Get(arguments_, "limit"), Num(DefaultLimit)))
      [] SwitchCase(toolName) = "get_organizations" ->
            getOrganizations(Get(arguments_, "role"))
      [] OTHER -> Throw(Concat("Tool ", toolName) \o " not implemented")

\* The try/catch of MCPServer.handleToolsCall around the executor's
\* completion: a success envelope, or the catch block's error envelope.
TryCatch(exec, toolName, arguments_) ==
    Ok(IF exec.ok THEN ToolSuccess(exec.val)
       ELSE ToolFailure(exec.msg, toolName, arguments_))

\* A call frame: the locals of a handleToolsCall invocation and its completion.
\* executor is the switch case that ran ("none" when the switch was not
\* reached), exec the completion of that case.
Frame(toolName, arguments_, executor, exec, ret) ==
    [toolName |-> toolName, arguments_ |-> arguments_, executor |-> executor,
     exec |-> exec, ret |-> ret]

NoFrame == Frame(Undef, Undef, "none", Throw(""), Throw(""))

Capabilities ==
    Obj(<<M("tools", Obj(<<M("listChanged", Bool(FALSE))>>)),
          M("resources", Obj(<<M("subscribe", Bool(FALSE)),
                               M("listChanged", Bool(FALSE))>>))>>)

ServerInfo ==
    Obj(<<M("name", Str("linkedin-mcp-server")), M("version", Str("1.0.0")),
          M("protocol", Str("MCP 1.0"))>>)

\* new MCPServer(): the fields the constructor sets.
MCPServer_constructor ==
    [linkedinToken |-> Null, version |-> Str("1.0.0"),
     serverInfo |-> ServerInfo, tools |-> initializeTools]

\* handleToolsCall(params) on the MCPServer object self, at clock value t.
This_handleToolsCall(self, params, t) ==
    IF Nullish(params)
    THEN Frame(Undef, Undef, "none", Throw(""), Throw(ReadError(params, "name")))
    ELSE LET toolName == Get(params, "name")
             arguments_ == Or(Get(params, "arguments"), Obj(<<>>))
             exec == RunExecutor(toolName, arguments_, t)
         IN  IF Unconvertible(toolName)
             THEN Frame(toolName, arguments_, "none", Throw(""),
                        Throw(ConversionError))
             ELSE IF ~ToolKnown(self.tools, toolName)
             THEN Frame(toolName, arguments_, "none", Throw(""),
                        Ok(UnknownToolError(self.tools, toolName)))
             ELSE Frame(toolName, arguments_, SwitchCase(toolName), exec,
                        TryCatch(exec, toolName, arguments_))

\* Mutant: a call unregisters the tool it names.
FieldsAfterToolsCall_Unregister(self, params) ==
    [self EXCEPT !.tools =
        Obj(SelectSeq(self.tools.members,
                      LAMBDA m : Str(m.key) # Get(params, "name")))]

\* The fields of self once handleToolsCall(params) has returned or thrown:
\* the handler and the executors assign to no field.
FieldsAfterToolsCall(self, params) == self

\* new MCPServer().handleToolsCall(params) at clock value t.
MCPServer_handleToolsCall(params, t) ==
    This_handleToolsCall(MCPServer_constructor, params, t)

\* handleToolsList() on the MCPServer object self.
This_handleToolsList(self) ==
    Obj(<<M("jsonrpc", Str("2.0")),
          M("result", Obj(<<M("tools", ObjectValues(self.tools))>>))>>)

\* new MCPServer().handleToolsList()
MCPServer_handleToolsList == This_handleToolsList(MCPServer_constructor)

\* handleInitialize(params) on the MCPServer object self.
This_handleInitialize(self, params) ==
    Obj(<<M("jsonrpc", Str("2.0")),
          M("result", Obj(<<M("serverInfo", self.serverInfo),
                            M("capabilities", Capabilities)>>))>>)

\* new MCPServer().handleInitialize(params)
MCPServer_handleInitialize(params) ==
    This_handleInitialize(MCPServer_constructor, params)

(***************************************************************************)
(* sw.js: the service worker.                                              *)
(***************************************************************************)
\* createMCPServerInstance().handleInitialize(params)
SW_handleInitialize(params) ==
    Obj(<<M("jsonrpc", Str("2.0")),
          M("result", Obj(<<M("serverInfo", ServerInfo),
                            M("capabilities", Capabilities)>>))>>)

\* The tool descriptors listed by createMCPServerInstance().handleToolsList().
SW_tools ==
    <<Descriptor("get_profile",
          "Get LinkedIn profile information for the current user",
          SchemaObject(<<>>, <<>>)),
      Descriptor("create_post",
          "Create a new LinkedIn post",
          SchemaObject(<<
              M("text", Obj(<<M("type", Str("string")),
                              M("description", Str("The text content of the post"))>>)),
              M("visibility", Obj(<<M("type", Str("string")),
                  M("description", Str("Post visibility (PUBLIC or CONNECTIONS)")),
                  M("enum", Arr(<<Str("PUBLIC"), Str("CONNECTIONS")>>)),
                  M("default", Str("PUBLIC"))>>))>>,
            <<Str("text")>>)),
      Descriptor("search_organizations",
          "Search for LinkedIn organizations",
          SchemaObject(<<
              M("query", Obj(<<M("type", Str("string")),
                               M("description", Str("Search query"))>>)),
              M("limit", Obj(<<M("type", Str("number")),
                               M("description", Str("Max results")),
                               M("default", Num(10))>>))>>,
            <<Str("query")>>)),
      Descriptor("get_organizations",
          "Get user's organizations",
          SchemaObject(<<
              M("role", Obj(<<M("type", Str("string")),
                              M("description", Str("Filter by role"))>>))>>,
            <<>>))>>

\* createMCPServerInstance().handleToolsList()
SW_handleToolsList ==
    Obj(<<M("jsonrpc", Str("2.0")),
          M("result", Obj(<<M("tools", Arr(SW_tools))>>))>>)

\* The switch of createMCPServerInstance().handleToolsCall: the completion
\* of the case for toolName, `result` when it completes normally.
SW_result(toolName, args, t) ==
    CASE SwitchCase(toolName) = "get_profile" ->
            Ok(Obj(<<M("status", Str("demo")),
                  M("data", Obj(<<
                      M("id", Str("demo-user")),
                      M("name", Str("Demo LinkedIn User")),
                      M("headline", Str("Professional using MCP Server")),
                      M("location", Str("San Francisco, CA"))>>))>>))
      [] SwitchCase(toolName) = "create_post" ->
            IF Unconvertible(Get(args, "text")) THEN Throw(ConversionError)
            ELSE
            Ok(Obj(<<M("status", Str("success")),
                  M("message", Str(Concat("Post would be created: \"",
                                          Get(args, "text")) \o "\"")),
                  M("data", Obj(<<
                      M("visibility", Or(Get(args, "visibility"), Str("PUBLIC"))),
                      M("id", Str(Concat("post-", DateNow(t)))),
                      M("createdAt", Str(ToISOString(t)))>>))>>))
      [] SwitchCase(toolName) = "search_organizations" ->
            IF Unconvertible(Get(args, "query")) THEN Throw(ConversionError)
            ELSE
            Ok(Obj(<<M("status", Str("demo")),
                  M("data", Obj(<<
                      M("elements", Arr(<<
                          Obj(<<M("id", Str(Concat("org-", DateNow(t)))),
                                M("name", Str(Concat("Demo Organization for \"",
                                                     Get(args, "query")) \o "\"")),
                                M("industry", Str("Technology"))>>)>>))>>))>>))
      [] SwitchCase(toolName) = "get_organizations" ->
            Ok(Obj(<<M("status", Str("demo")),
                  M("data", Obj(<<
                      M("elements", Arr(<<
                          Obj(<<M("organization", Str("urn:li:organization:demo123")),
                                M("role", Or(Get(args, "role"), Str("MEMBER"))),
                                M("state", Str("APPROVED"))>>)>>))>>))>>))
      [] OTHER ->
            IF Unconvertible(toolName) THEN Throw(ConversionError)
            ELSE Ok(Obj(<<M("error", Str(Concat("Unknown tool: ", toolName)))>>))

\* createMCPServerInstance().handleToolsCall(params) at clock value t: no
\* try/catch, an exception of the switch leaves the handler.
SW_handleToolsCall(params, t) ==
    IF Nullish(params)
    THEN Frame(Undef, Undef, "none", Throw(""), Throw(ReadError(params, "name")))
    ELSE LET toolName == Get(params, "name")
             args == Or(Get(params, "arguments"), Obj(<<>>))
             exec == SW_result(toolName, args, t)
         IN  Frame(toolName, args, SwitchCase(toolName), exec,
                   IF exec.ok THEN Ok(ToolSuccess(exec.val)) ELSE Throw(exec.msg))

\* The -32601 envelope of the default case of handleMCPRequest.
MethodNotFound(method) ==
    Obj(<<M("jsonrpc", Str("2.0")),
          M("error", Obj(<<
              M("code", Num(-32601)),
              M("message", Str(Concat("Method not found: ", method))),
              M("data", Obj(<<M("supportedMethods",
                  Arr(<<Str("initialize"), Str("tools/list"),
                        Str("tools/call")>>))>>))>>))>>)

\* The envelope built by the catch block of handleMCPRequest.
InternalError(msg, t) ==
    Obj(<<M("jsonrpc", Str("2.0")),
          M("error", Obj(<<
              M("code", Num(-32603)),
              M("message", Str("Internal error: " \o msg)),
              M("data", Obj(<<M("timestamp", Str(ToISOString(t)))>>))>>))>>)

\* getCORSHeaders()
getCORSHeaders ==
    <<M("Access-Control-Allow-Origin", "*"),
      M("Access-Control-Allow-Methods", "POST, GET, OPTIONS"),
      M("Access-Control-Allow-Headers", "Content-Type, Authorization, Accept"),
      M("Access-Control-Max-Age", "86400")>>

\* A Response: status, headers and body text ("" for a null body).
Response(status, headers, body) ==
    [status |-> status, headers |-> headers, body |-> body]

\* createJSONResponse(data, status)
createJSONResponse(data, status) ==
    Response(status, <<M("Content-Type", "application/json")>> \o getCORSHeaders,
             JSONStringify(data, FALSE))

\* handleCORSPreflight()
handleCORSPreflight == Response(200, getCORSHeaders, "")

\* `response.id = requestId` when requestId !== undefined.
AddRequestId(response, requestId) ==
    IF requestId # Undef THEN Put(response, "id", requestId) ELSE response

\* The switch of handleMCPRequest: the frame of the handler call and the
\* response it leaves (a thrown completion if the handler throws).
Route(method, params, t) ==
    CASE method = Str("initialize") ->
            [NoFrame EXCEPT !.ret = Ok(SW_handleInitialize(params))]
      [] method = Str("tools/list") ->
            [NoFrame EXCEPT !.ret = Ok(SW_handleToolsList)]
      [] method = Str("tools/call") -> SW_handleToolsCall(params, t)
      [] OTHER -> [NoFrame EXCEPT !.ret =
                      IF Unconvertible(method) THEN Throw(ConversionError)
                      ELSE Ok(MethodNotFound(method))]

\* A request body as request.json() settles it: a decoded JSON value, or a
\* rejection for text that is not JSON.
Decoded(v) == [valid |-> TRUE, json |-> v]
Undecodable == [valid |-> FALSE, json |-> Undef]

JSONSyntaxError == "Unexpected token < in JSON at position 0"

\* The end of the try block of handleMCPRequest: the response goes out with
\* status 200.
TryBlock(frame, response) ==
    [frame |-> frame, envelope |-> response, caught |-> FALSE,
     http |-> createJSONResponse(response, 200)]

\* The catch block of handleMCPRequest: an error envelope with status 500.
CatchBlock(frame, msg, t) ==
    [frame |-> frame, envelope |-> InternalError(msg, t), caught |-> TRUE,
     http |-> createJSONResponse(InternalError(msg, t), 500)]

\* handleMCPRequest(request) from the point request.json() settles, at clock
\* value t: the locals and the Response returned.
handleMCPRequest(body, t) ==
    IF ~body.valid THEN CatchBlock(NoFrame, JSONSyntaxError, t)
    ELSE IF Nullish(body.json)
    THEN CatchBlock(NoFrame, ReadError(body.json, "method"), t)
    ELSE LET requestData == body.json
             method == Get(requestData, "method")
             params == Or(Get(requestData, "params"), Obj(<<>>))
             requestId == Get(requestData, "id")
             frame == Route(method, params, t)
         IN  IF frame.ret.ok
             THEN TryBlock(frame, AddRequestId(frame.ret.val, requestId))
             ELSE CatchBlock(frame, frame.ret.msg, t)

(***************************************************************************)
(* Inputs.                                                                 *)
(***************************************************************************)
\* An object as JSON.parse builds it: absent members are left out.
Json(members) == Obj(SelectSeq(members, LAMBDA m : m.val # Undef))

\* A parsed object with a member named toString.
Opaque == Obj(<<M("toString", Num(1))>>)

Ids == {Undef, Null, Num(0), Num(7), Str("")}

ToolNames ==
    {Undef, Num(5), Str(""), Str("get_profile"), Str("create_post"),
     Str("search_organizations"), Str("get_organizations"), Str("delete_post"),
     Str("toString"), Str("constructor"), Arr(<<Str("get_profile")>>), Opaque}

Texts == {Undef, Str(""), Str("hello"), Opaque}
Visibilities == {Undef, Str("CONNECTIONS"), Opaque}
Queries == {Undef, Num(5), Str(""), Str("Acme"), Str("Acme  Corp"), Opaque}
Limits ==
    {Undef, Null, Num(-1), Num(0), Num(1), Num(5), Num(6), Num(100),
     Str("3"), Str("abc"), Opaque}
Roles ==
    {Undef, Null, Num(1), Str(""), Str("MEMBER"), Str("ADMINISTRATOR"),
     Str("member"), Str("CONTRIBUTOR")}

ArgumentValues ==
    {Undef, Null, Str("args"), Obj(<<>>)}
    \cup {Json(<<M("text", x), M("visibility", v)>>) : x \in Texts, v \in Visibilities}
    \cup {Json(<<M("query", q), M("limit", l)>>) : q \in Queries, l \in Limits}
    \cup {Json(<<M("role", r)>>) : r \in Roles}

ParamValues ==
    {Undef, Null, Num(0), Num(5), Str("params"), Arr(<<>>)}
    \cup {Json(<<M("name", n), M("arguments", a)>>) :
              n \in ToolNames, a \in ArgumentValues}

\* Params sent with the methods that ignore them.
FewParams ==
    {Undef, Null, Num(5), Obj(<<>>),
     Json(<<M("name", Str("get_profile"))>>)}

Methods ==
    {Undef, Null, Num(1), Str(""), Str("initialize"), Str("tools/list"),
     Str("resources/list"), Arr(<<Str("tools/call")>>), Opaque}

Bodies ==
    {Undecodable}
    \cup {Decoded(v) : v \in {Null, Num(5), Str("tools/list"), Bool(TRUE), Arr(<<>>)}}
    \cup {Decoded(Json(<<M("jsonrpc", Str("2.0")), M("method", Str("tools/call")),
                         M("params", p), M("id", i)>>)) :
              p \in ParamValues, i \in Ids}
    \cup {Decoded(Json(<<M("jsonrpc", Str("2.0")), M("method", m),
                         M("params", p), M("id", i)>>)) :
              m \in Methods, p \in FewParams, i \in Ids}

NoBody == Undecodable
NoResponse == Response(0, <<>>, "")

(***************************************************************************)
(* sw.js: cache storage and static requests.                               *)
(***************************************************************************)
CACHE_NAME == "linkedin-mcp-v2"
STATIC_ASSETS == <<"/", "/index.html", "/mcpServer.js">>

StaticAssets == {STATIC_ASSETS[i] : i \in 1..Len(STATIC_ASSETS)}

\* Caches of the origin left by earlier deployments.
OtherCacheNames == {"linkedin-mcp-v1", "fonts"}
CacheNames == {CACHE_NAME} \cup OtherCacheNames

\* The URLs of GET requests and of cache entries.
GetUrls == {"/index.html"}
Urls == StaticAssets \cup GetUrls

\* Response.ok
ResponseOk(r) == r.status >= 200 /\ r.status <= 299

\* What the network can answer a GET with; a fetch can also reject.
NetworkResponses ==
    {Response(200, <<>>, "<html>"), Response(206, <<>>, "<ht"),
     Response(404, <<>>, "Not Found")}

\* new Response('Service Unavailable', {status: 503, ...})
ServiceUnavailable == Response(503, <<>>, "Service Unavailable")

\* A cache of CacheStorage: whether it exists, and its entry for each URL
\* (Undef: cache.match finds nothing).
EmptyEntries == [u \in Urls |-> Undef]
NoCache == [exists |-> FALSE, entries |-> EmptyEntries]
EmptyCache == [exists |-> TRUE, entries |-> EmptyEntries]

\* caches.open(name): the cache is created when it does not exist.
CachesOpen(storage, name) ==
    IF storage[name].exists THEN storage
    ELSE [storage EXCEPT ![name] = EmptyCache]

\* caches.keys()
CachesKeys(storage) == {n \in CacheNames : storage[n].exists}

\* caches.delete(name)
CachesDelete(storage, name) == [storage EXCEPT ![name] = NoCache]

\* cache.match(request) on the cache named name.
CacheMatch(storage, name, url) == storage[name].entries[url]

\* cache.put(request, response) once it has stored the entry.
CachePut(storage, name, url, response) ==
    [storage EXCEPT ![name].entries[url] = response]

\* cache.put rejects a response of status 206.
PutAccepts(response) == response.status # 206

\* Mutant: every network response is put in the cache.
ShouldCache_Always(networkResponse) == TRUE

\* `if (networkResponse.ok)` of handleStaticRequest.
ShouldCache(networkResponse) == ResponseOk(networkResponse)

\* Mutant: activate deletes nothing but the current cache.
ShouldDelete_Current(cacheName) == cacheName = CACHE_NAME

\* `if (cacheName !== CACHE_NAME)` of the activate listener.
ShouldDelete(cacheName) == cacheName # CACHE_NAME

\* The number of GET requests the worker handles at a time.
MaxInFlight == 2
Slots == 1..MaxInFlight

\* The locals of one handleStaticRequest invocation.
StaticCall(pc_, url, cachedResponse, fetched, networkResponse, out) ==
    [pc |-> pc_, url |-> url, cachedResponse |-> cachedResponse,
     fetched |-> fetched, networkResponse |-> networkResponse, out |-> out]

NoStaticCall == StaticCall("idle", "", Undef, FALSE, Undef, Undef)

\* The install or activate listener in progress; names are the caches whose
\* deletion activate has started.
Lifecycle(pc_, names) == [pc |-> pc_, names |-> names]

(***************************************************************************)
(* State.                                                                  *)
(*   now       the wall clock                                              *)
(*   pc        "idle"; "decoding" while handleMCPRequest awaits            *)
(*             request.json(); "responded" once the worker has passed a    *)
(*             Response to respondWith; "returned" after a handler of an   *)
(*             MCPServer object was called directly                        *)
(*   req       the request in hand                                         *)
(*   frame     the locals of the handleToolsCall invocation, if any        *)
(*   envelope  the JSON-RPC envelope produced (Undef if none)              *)
(*   caught    the catch block of handleMCPRequest ran                     *)
(*   http      the Response of the worker                                  *)
(*   server    the fields of the MCPServer object a page holds             *)
(*   served    a request has been answered before the one in hand          *)
(*   caches    CacheStorage of the origin                                  *)
(*   sw        the install or activate listener in progress                *)
(*   gets      the handleStaticRequest invocations in progress             *)
(*   puts      the cache.put calls started and not settled                 *)
(*   activated an activate listener has run to completion                  *)
(***************************************************************************)
VARIABLES now, pc, req, frame, envelope, caught, http, server, served,
          caches, sw, gets, puts, activated

mcpVars == <<now, pc, req, frame, envelope, caught, http, server, served>>
cacheVars == <<caches, sw, gets, puts, activated>>
vars == <<mcpVars, cacheVars>>

Request(via, op, body, params) ==
    [via |-> via, op |-> op, body |-> body, params |-> params]

NoRequest == Request("none", "", NoBody, Undef)

\* The worker before any cache event, the current cache not yet created.
InitCaches(others) ==
    /\ caches = [n \in CacheNames |->
                    IF n \in others THEN EmptyCache ELSE NoCache]
    /\ sw = Lifecycle("idle", {})
    /\ gets = [i \in Slots |-> NoStaticCall]
    /\ puts = {}
    /\ activated = FALSE

InitMCP ==
    /\ now = 0
    /\ pc = "idle"
    /\ req = NoRequest
    /\ frame = NoFrame
    /\ envelope = Undef
    /\ caught = FALSE
    /\ http = NoResponse
    /\ server = MCPServer_constructor
    /\ served = FALSE

Init == InitMCP /\ InitCaches({})

\* The clock advances.
Tick ==
    /\ now < MaxClock
    /\ now' = now + 1
    /\ UNCHANGED <<pc, req, frame, envelope, caught, http, server, served>>
    /\ UNCHANGED cacheVars

\* fetch listener, POST /mcp: handleMCPRequest starts and awaits the body.
FetchPostMCP ==
    /\ pc = "idle"
    /\ \E body \in Bodies : req' = Request("fetch", "POST /mcp", body, Undef)
    /\ pc' = "decoding"
    /\ UNCHANGED <<now, frame, envelope, caught, http, server, served>>
    /\ UNCHANGED cacheVars

\* handleMCPRequest resumes when request.json() settles and runs to its
\* return.
ResumeMCPRequest ==
    /\ pc = "decoding"
    /\ LET r == handleMCPRequest(req.body, now)
       IN  /\ frame' = r.frame
           /\ envelope' = r.envelope
           /\ caught' = r.caught
           /\ http' = r.http
    /\ pc' = "responded"
    /\ UNCHANGED <<now, req, server, served>>
    /\ UNCHANGED cacheVars

\* fetch listener, OPTIONS /mcp.
FetchOptionsMCP ==
    /\ pc = "idle"
    /\ req' = Request("fetch", "OPTIONS /mcp", NoBody, Undef)
    /\ http' = handleCORSPreflight
    /\ pc' = "responded"
    /\ UNCHANGED <<now, frame, envelope, caught, server, served>>
    /\ UNCHANGED cacheVars

\* A page calls handleToolsCall(params) on its MCPServer object.
CallHandleToolsCall ==
    /\ pc = "idle"
    /\ \E params \in ParamValues :
          /\ req' = Request("page", "handleToolsCall", NoBody, params)
          /\ frame' = This_handleToolsCall(server, params, now)
          /\ server' = FieldsAfterToolsCall(server, params)
    /\ envelope' = IF frame'.ret.ok THEN frame'.ret.val ELSE Undef
    /\ pc' = "returned"
    /\ UNCHANGED <<now, caught, http, served>>
    /\ UNCHANGED cacheVars

\* A page calls handleToolsList() on its MCPServer object.
CallHandleToolsList ==
    /\ pc = "idle"
    /\ req' = Request("page", "handleToolsList", NoBody, Undef)
    /\ frame' = [NoFrame EXCEPT !.ret = Ok(This_handleToolsList(server))]
    /\ envelope' = This_handleToolsList(server)
    /\ pc' = "returned"
    /\ UNCHANGED <<now, caught, http, server, served>>
    /\ UNCHANGED cacheVars

\* A page calls handleInitialize(params) on its MCPServer object.
CallHandleInitialize ==
    /\ pc = "idle"
    /\ \E params \in FewParams :
          /\ req' = Request("page", "handleInitialize", NoBody, params)
          /\ frame' = [NoFrame EXCEPT !.ret = Ok(This_handleInitialize(server, params))]
          /\ envelope' = This_handleInitialize(server, params)
    /\ pc' = "returned"
    /\ UNCHANGED <<now, caught, http, server, served>>
    /\ UNCHANGED cacheVars

\* The response or return value is consumed; nothing of the request is kept.
Finish ==
    /\ pc \in {"responded", "returned"}
    /\ pc' = "idle"
    /\ req' = NoRequest
    /\ frame' = NoFrame
    /\ envelope' = Undef
    /\ caught' = FALSE
    /\ http' = NoResponse
    /\ served' = TRUE
    /\ UNCHANGED <<now, server>>
    /\ UNCHANGED cacheVars

Next ==
    \/ Tick
    \/ FetchPostMCP
    \/ ResumeMCPRequest
    \/ FetchOptionsMCP
    \/ CallHandleToolsCall
    \/ CallHandleToolsList
    \/ CallHandleInitialize
    \/ Finish

Spec == Init /\ [][Next]_vars

(***************************************************************************)
(* The cache events of the worker: install, activate and GET requests,     *)
(* each listener advancing from one await to the next.                     *)
(***************************************************************************)
InitCache == InitMCP /\ \E others \in SUBSET OtherCacheNames : InitCaches(others)

\* install listener: caches.open(CACHE_NAME) resolves.
InstallOpen ==
    /\ sw.pc = "idle"
    /\ caches' = CachesOpen(caches, CACHE_NAME)
    /\ sw' = Lifecycle("addAll", {})
    /\ UNCHANGED <<gets, puts, activated, mcpVars>>

\* install listener: cache.addAll(STATIC_ASSETS) settles. It stores the
\* three responses when every fetch gave a response the cache accepts and
\* rejects otherwise, storing nothing; skipWaiting() follows the former.
InstallAddAll ==
    /\ sw.pc = "addAll"
    /\ \E got \in [StaticAssets -> NetworkResponses \cup {Undef}] :
          caches' =
              IF \A u \in StaticAssets :
                     /\ got[u] # Undef
                     /\ ResponseOk(got[u])
                     /\ PutAccepts(got[u])
              THEN [caches EXCEPT ![CACHE_NAME].entries =
                       [u \in Urls |-> IF u \in StaticAssets THEN got[u] ELSE @[u]]]
              ELSE caches
    /\ sw' = Lifecycle("idle", {})
    /\ UNCHANGED <<gets, puts, activated, mcpVars>>

\* activate listener: caches.keys() resolves and a caches.delete is started
\* for every name the test selects.
ActivateKeys ==
    /\ sw.pc = "idle"
    /\ sw' = Lifecycle("deleting", {n \in CachesKeys(caches) : ShouldDelete(n)})
    /\ UNCHANGED <<caches, gets, puts, activated, mcpVars>>

\* activate listener: one of the started caches.delete calls takes effect.
ActivateDelete ==
    /\ sw.pc = "deleting"
    /\ \E n \in sw.names :
          /\ caches' = CachesDelete(caches, n)
          /\ sw' = Lifecycle("deleting", sw.names \ {n})
    /\ UNCHANGED <<gets, puts, activated, mcpVars>>

\* activate listener: Promise.all resolves and clients.claim() runs.
ActivateClaim ==
    /\ sw.pc = "deleting"
    /\ sw.names = {}
    /\ sw' = Lifecycle("idle", {})
    /\ activated' = TRUE
    /\ UNCHANGED <<caches, gets, puts, mcpVars>>

\* fetch listener, GET: handleStaticRequest starts and awaits caches.open.
FetchGet(i) ==
    /\ gets[i].pc = "idle"
    /\ \E url \in GetUrls :
          gets' = [gets EXCEPT ![i] = [NoStaticCall EXCEPT !.pc = "open",
                                                           !.url = url]]
    /\ UNCHANGED <<caches, sw, puts, activated, mcpVars>>

\* handleStaticRequest: caches.open(CACHE_NAME) resolves.
StaticOpen(i) ==
    /\ gets[i].pc = "open"
    /\ caches' = CachesOpen(caches, CACHE_NAME)
    /\ gets' = [gets EXCEPT ![i].pc = "match"]
    /\ UNCHANGED <<sw, puts, activated, mcpVars>>

\* handleStaticRequest: cache.match resolves; a hit is returned, a miss
\* starts fetch(request).
StaticMatch(i) ==
    /\ gets[i].pc = "match"
    /\ LET cachedResponse == CacheMatch(caches, CACHE_NAME, gets[i].url)
       IN  gets' = [gets EXCEPT ![i] =
               IF cachedResponse # Undef
               THEN [@ EXCEPT !.pc = "responded",
                              !.cachedResponse = cachedResponse,
                              !.out = cachedResponse]
               ELSE [@ EXCEPT !.pc = "fetch", !.fetched = TRUE]]
    /\ UNCHANGED <<caches, sw, puts, activated, mcpVars>>

\* handleStaticRequest: fetch(request) resolves; cache.put is started for a
\* response that passes the test, and the response is returned.
StaticFetched(i) ==
    /\ gets[i].pc = "fetch"
    /\ \E networkResponse \in NetworkResponses :
          /\ puts' = IF ShouldCache(networkResponse)
                     THEN puts \cup {[url |-> gets[i].url,
                                      response |-> networkResponse]}
                     ELSE puts
          /\ gets' = [gets EXCEPT ![i].pc = "responded",
                                  ![i].networkResponse = networkResponse,
                                  ![i].out = networkResponse]
    /\ UNCHANGED <<caches, sw, activated, mcpVars>>

\* handleStaticRequest: fetch(request) rejects and the catch block awaits
\* caches.open.
StaticFetchFailed(i) ==
    /\ gets[i].pc = "fetch"
    /\ gets' = [gets EXCEPT ![i].pc = "catch_open"]
    /\ UNCHANGED <<caches, sw, puts, activated, mcpVars>>

\* catch block: caches.open(CACHE_NAME) resolves.
StaticCatchOpen(i) ==
    /\ gets[i].pc = "catch_open"
    /\ caches' = CachesOpen(caches, CACHE_NAME)
    /\ gets' = [gets EXCEPT ![i].pc = "catch_match"]
    /\ UNCHANGED <<sw, puts, activated, mcpVars>>

\* catch block: cache.match resolves; a hit is returned, a miss gives 503.
StaticCatchMatch(i) ==
    /\ gets[i].pc = "catch_match"
    /\ LET cachedResponse == CacheMatch(caches, CACHE_NAME, gets[i].url)
       IN  gets' = [gets EXCEPT ![i].pc = "responded",
                                ![i].cachedResponse = cachedResponse,
                                ![i].out = IF cachedResponse # Undef
                                           THEN cachedResponse
                                           ELSE ServiceUnavailable]
    /\ UNCHANGED <<caches, sw, puts, activated, mcpVars>>

\* The Response reaches the page; the locals are gone.
StaticDone(i) ==
    /\ gets[i].pc = "responded"
    /\ gets' = [gets EXCEPT ![i] = NoStaticCall]
    /\ UNCHANGED <<caches, sw, puts, activated, mcpVars>>

\* A cache.put that was started stores its entry.
PutStores ==
    /\ \E p \in puts :
          /\ PutAccepts(p.response)
          /\ caches' = CachePut(caches, CACHE_NAME, p.url, p.response)
          /\ puts' = puts \ {p}
    /\ UNCHANGED <<sw, gets, activated, mcpVars>>

\* A cache.put that was started rejects (status 206, quota); nobody awaits
\* it.
PutRejects ==
    /\ \E p \in puts : puts' = puts \ {p}
    /\ UNCHANGED <<caches, sw, gets, activated, mcpVars>>

NextCache ==
    \/ InstallOpen
    \/ InstallAddAll
    \/ ActivateKeys
    \/ ActivateDelete
    \/ ActivateClaim
    \/ \E i \in Slots : FetchGet(i)
    \/ \E i \in Slots : StaticOpen(i)
    \/ \E i \in Slots : StaticMatch(i)
    \/ \E i \in Slots : StaticFetched(i)
    \/ \E i \in Slots : StaticFetchFailed(i)
    \/ \E i \in Slots : StaticCatchOpen(i)
    \/ \E i \in Slots : StaticCatchMatch(i)
    \/ \E i \in Slots : StaticDone(i)
    \/ PutStores
    \/ PutRejects

SpecCache == InitCache /\ [][NextCache]_vars
(***************************************************************************)
(* Properties.                                                             *)
(***************************************************************************)
RegisteredNames ==
    <<Str("get_profile"), Str("create_post"), Str("search_organizations"),
      Str("get_organizations")>>

Registered == {RegisteredNames[i] : i \in 1..4}

\* The worker has answered a POST to /mcp.
Answered == pc = "responded" /\ req.op = "POST /mcp"

\* The decoded request of an answered POST is a non-null JSON value.
HasRequestData == Answered /\ req.body.valid /\ ~Nullish(req.body.json)

\* The worker routed the request in hand to handleToolsCall.
RoutedToolsCall ==
    HasRequestData /\ Get(req.body.json, "method") = Str("tools/call")

\* An MCPServer object's handleToolsCall was called and returned.
ReturnedToolsCall ==
    pc = "returned" /\ req.op = "handleToolsCall" /\ frame.ret.ok

\* A tools/call completed with an envelope, on either server.
ToolsCallDone == RoutedToolsCall \/ ReturnedToolsCall

\* params as the handler in hand received them.
HandlerParams ==
    IF req.via = "page" THEN req.params
    ELSE Or(Get(req.body.json, "params"), Obj(<<>>))

\* params.name and params.arguments of the tools/call in hand.
RequestedName == Get(HandlerParams, "name")
RequestedArguments == Get(HandlerParams, "arguments")

ErrorOf(env) == Get(env, "error")
ResultOf(env) == Get(env, "result")

\* C1: every tools/call whose params.name is not one of the four registered
\* names is answered with error.code = -32602, error.data.availableTools equal
\* to the registry's name sequence, and no result.
C1_UnknownToolRejected ==
    (ToolsCallDone /\ RequestedName \notin Registered)
        => /\ Get(ErrorOf(envelope), "code") = Num(-32602)
           /\ Get(Get(ErrorOf(envelope), "data"), "availableTools")
                  = Arr(RegisteredNames)
           /\ ~HasOwn(envelope, "result")

\* The id of the request in hand: undefined unless the decoded body is an
\* object with an id member.
RequestId == IF HasRequestData THEN Get(req.body.json, "id") ELSE Undef

\* C2: the response of the dispatcher has an id exactly when the request's id
\* is defined, and then it is the request's id, on every routing branch.
C2_IdEchoed ==
    Answered
        => /\ HasOwn(envelope, "id") <=> RequestId # Undef
           /\ Get(envelope, "id") = RequestId

\* Some envelope has been produced for the request in hand.
EnvelopeProduced == pc \in {"responded", "returned"} /\ envelope # Undef

\* C3: every envelope produced has jsonrpc = "2.0" and exactly one of result
\* and error.
C3_ResultXorError ==
    EnvelopeProduced
        => /\ Get(envelope, "jsonrpc") = Str("2.0")
           /\ HasOwn(envelope, "result") # HasOwn(envelope, "error")

\* C3 witness: the catch path of the transport produced an envelope with an
\* error and no result.
C3_Witness ==
    /\ Answered
    /\ caught
    /\ HasOwn(envelope, "error")
    /\ ~HasOwn(envelope, "result")

\* C4: the dispatcher never throws: for every request handleMCPRequest
\* returns a Response carrying an envelope, and each handler returns an
\* envelope instead of raising, both the worker's handlers (which receive
\* params || {}) and those of an MCPServer object given such params.
C4_NeverThrows ==
    /\ Answered => /\ envelope.k = "object"
                   /\ http.status \in {200, 500}
                   /\ http.body = JSONStringify(envelope, FALSE)
    /\ HasRequestData => frame.ret.ok /\ ~caught
    /\ (pc = "returned" /\ ~Nullish(req.params))
           => frame.ret.ok /\ envelope.k = "object"

\* C5: a POST to /mcp is answered with status 200 whenever the body decodes
\* as JSON, and with status 500 only when decoding fails.
C5_StatusByDecoding ==
    Answered => (http.status = IF req.body.valid THEN 200 ELSE 500)

\* The executor (switch case) of a registered tool ran and raised.
ExecutorRaised ==
    /\ ToolsCallDone
    /\ RequestedName \in Registered
    /\ frame.executor # "none"
    /\ ~frame.exec.ok

\* C6: a tools/call naming a registered tool whose executor raises is answered
\* with error.code = -32603, a message embedding the failure description,
\* error.data.tool = the requested name, error.data.arguments = the arguments
\* passed to the executor, and no result.
C6_ExecutorFailureReported ==
    ExecutorRaised
        => /\ Get(ErrorOf(envelope), "code") = Num(-32603)
           /\ Get(ErrorOf(envelope), "message").k = "string"
           /\ Includes(Get(ErrorOf(envelope), "message").s, frame.exec.msg)
           /\ frame.exec.msg # ""
           /\ Get(Get(ErrorOf(envelope), "data"), "tool") = RequestedName
           /\ Get(Get(ErrorOf(envelope), "data"), "arguments")
                  = Or(RequestedArguments, Obj(<<>>))
           /\ ~HasOwn(envelope, "result")

\* A tools/call was answered with a success envelope.
ToolsCallSucceeded == ToolsCallDone /\ HasOwn(envelope, "result")

\* C7: a successful tools/call has result.content of exactly one element
\* {type: "text", text: the serialised executor result}, result has no other
\* member, and the tool name is a registered one.
C7_SuccessIsOneTextItem ==
    ToolsCallSucceeded
        => /\ ResultOf(envelope).k = "object"
           /\ Len(ResultOf(envelope).members) = 1
           /\ Get(ResultOf(envelope), "content")
                  = Arr(<<Obj(<<M("type", Str("text")),
                                M("text", Str(JSONStringify(frame.exec.val, TRUE)))>>)>>)
           /\ RequestedName \in Registered

\* The names a tools/list envelope lists, in order.
ListedNames(env) ==
    LET tools == Get(ResultOf(env), "tools").items
    IN  [i \in 1..Len(tools) |-> Get(tools[i], "name")]

\* The tools/list output of the server that handles the request in hand.
ToolsListOfServer ==
    IF req.via = "page" THEN MCPServer_handleToolsList ELSE SW_handleToolsList

\* The tools/call in hand ran the executor of a tool instead of rejecting the
\* name.
Dispatched ==
    /\ frame.executor \in {"get_profile", "create_post", "search_organizations",
                           "get_organizations"}
    /\ Get(ErrorOf(envelope), "code") # Num(-32602)

\* A tools/list request was answered.
ToolsListDone ==
    \/ HasRequestData /\ Get(req.body.json, "method") = Str("tools/list")
    \/ pc = "returned" /\ req.op = "handleToolsList"

\* C8: a name is dispatched to an executor exactly when tools/list of the
\* same server lists it, and tools/list always lists the same four names.
C8_ListedIffDispatched ==
    /\ ToolsCallDone
           => (Dispatched
                   <=> \E i \in 1..Len(ListedNames(ToolsListOfServer)) :
                           ListedNames(ToolsListOfServer)[i] = RequestedName)
    /\ ToolsListDone => ListedNames(envelope) = RegisteredNames

\* C8 witness: an MCPServer object dispatched the listed name
\* get_organizations to its executor.
C8_Witness ==
    /\ ReturnedToolsCall
    /\ RequestedName = Str("get_organizations")
    /\ Dispatched
    /\ frame.exec.ok

\* The elements of the executor result of the tools/call in hand.
ResultElements == Get(Get(frame.exec.val, "data"), "elements").items

\* The name of an organization record (localizedName in mcpServer.js).
RecordName(el) ==
    IF HasOwn(el, "name") THEN Get(el, "name") ELSE Get(el, "localizedName")

\* A search_organizations call with a string query and a limit that is absent
\* or a non-negative number.
SearchCall ==
    /\ ToolsCallDone
    /\ RequestedName = Str("search_organizations")
    /\ Get(Or(RequestedArguments, Obj(<<>>)), "query").k = "string"
    /\ LET l == Get(Or(RequestedArguments, Obj(<<>>)), "limit")
       IN  l = Undef \/ (l.k = "number" /\ l.n >= 0)

\* min(L, 5), with L = 10 when limit is absent.
ExpectedCount ==
    LET l == Get(Or(RequestedArguments, Obj(<<>>)), "limit")
        n == IF l = Undef THEN DefaultLimit ELSE l.n
    IN  IF n <= MaxResults THEN n ELSE MaxResults

\* C9: search_organizations with query q and limit L succeeds with exactly
\* min(L, 5) records (L = 10 when absent), each record's name containing q.
C9_SearchCount ==
    SearchCall
        => /\ frame.exec.ok
           /\ HasOwn(envelope, "result")
           /\ Len(ResultElements) = ExpectedCount
           /\ \A i \in 1..Len(ResultElements) :
                  Includes(RecordName(ResultElements[i]).s,
                           Get(Or(RequestedArguments, Obj(<<>>)), "query").s)

\* A get_organizations call whose role is absent or a string.
OrganizationsCall ==
    /\ ToolsCallDone
    /\ RequestedName = Str("get_organizations")
    /\ Get(Or(RequestedArguments, Obj(<<>>)), "role").k \in {"undefined", "string"}

\* C10: get_organizations with role string r returns exactly the entries of
\* the two-element mock list whose role equals r; with role absent, both.
C10_RoleFilter ==
    OrganizationsCall
        => LET r == Get(Or(RequestedArguments, Obj(<<>>)), "role")
           IN  /\ frame.exec.ok
               /\ ResultElements = IF r = Undef THEN mockOrganizations
                                   ELSE FilterByRole(mockOrganizations, r)

\* The method of the decoded request in hand.
RequestedMethod == Get(req.body.json, "method")

SupportedMethods == <<Str("initialize"), Str("tools/list"), Str("tools/call")>>

\* The decoded request in hand names none of the three supported methods.
UnknownMethod ==
    /\ HasRequestData
    /\ \A i \in 1..3 : RequestedMethod # SupportedMethods[i]

\* C11: every request whose method is not initialize, tools/list or
\* tools/call (a missing method included) is answered with error.code =
\* -32601, error.message = "Method not found: " followed by the method and
\* error.data.supportedMethods = the three methods; no tool executor runs.
C11_MethodNotFound ==
    UnknownMethod
        => /\ Get(ErrorOf(envelope), "code") = Num(-32601)
           /\ Get(ErrorOf(envelope), "message")
                  = Str(Concat("Method not found: ", RequestedMethod))
           /\ Get(Get(ErrorOf(envelope), "data"), "supportedMethods")
                  = Arr(SupportedMethods)
           /\ frame.executor = "none"

\* The response of the worker to the POST in hand equals, for some clock
\* value, the response to the same request as the first one.
SameAsFirstFetch ==
    \E t \in 0..MaxClock : http = handleMCPRequest(req.body, t).http

\* What the call in hand returned or threw equals, for some clock value, the
\* outcome of the same call on a newly constructed MCPServer object.
SameAsFirstCall ==
    CASE req.op = "handleToolsCall" ->
            \E t \in 0..MaxClock :
                frame.ret = MCPServer_handleToolsCall(req.params, t).ret
      [] req.op = "handleToolsList" ->
            frame.ret = Ok(MCPServer_handleToolsList)
      [] OTHER -> frame.ret = Ok(MCPServer_handleInitialize(req.params))

\* C12: no request changes server state: after any sequence of requests the
\* registry is the one the constructor built, every response equals (clock
\* values aside) the response to the same request as the first one, and
\* tools/list returns the same four descriptors in the same order.
C12_NoCrossRequestState ==
    /\ server = MCPServer_constructor
    /\ Answered /\ req.body.valid => SameAsFirstFetch
    /\ pc = "returned" => SameAsFirstCall
    /\ ToolsListDone
           => /\ ListedNames(envelope) = RegisteredNames
              /\ Get(ResultOf(envelope), "tools")
                     = Get(ResultOf(ToolsListOfServer), "tools")

\* C12 witness: after an earlier request, create_post on the page's
\* MCPServer object succeeded with a stamped record.
C12_Witness ==
    /\ served
    /\ ReturnedToolsCall
    /\ RequestedName = Str("create_post")
    /\ frame.exec.ok
    /\ server = MCPServer_constructor

\* The handleStaticRequest invocation of slot i has returned its Response.
StaticResponded(i) == gets[i].pc = "responded"

\* The returned Response of slot i, by the path taken: a hit of the first
\* lookup without a fetch; the network response after a miss; after a failed
\* fetch, the entry of the second lookup or else 503.
StaticOutcome(i) ==
    LET g == gets[i]
    IN  CASE ~g.fetched ->
                 /\ g.cachedResponse # Undef
                 /\ g.out = g.cachedResponse
                 /\ g.networkResponse = Undef
          [] g.fetched /\ g.networkResponse # Undef ->
                 /\ g.out = g.networkResponse
                 /\ ~ResponseOk(g.networkResponse)
                        => [url |-> g.url, response |-> g.networkResponse] \notin puts
          [] OTHER ->
                 g.out = IF g.cachedResponse # Undef THEN g.cachedResponse
                         ELSE ServiceUnavailable

\* Every entry stored or being stored in the current cache is an ok response.
OnlyOkStored ==
    /\ \A u \in Urls :
           CacheMatch(caches, CACHE_NAME, u) # Undef
               => ResponseOk(CacheMatch(caches, CACHE_NAME, u))
    /\ \A p \in puts : ResponseOk(p.response)

\* A step in which slot i leaves the first lookup: with an entry in the cache
\* it returns that entry and fetches nothing, without one it goes to the
\* network.
LookupStep(i) ==
    (gets[i].pc = "match" /\ gets'[i].pc # "match")
        => IF CacheMatch(caches, CACHE_NAME, gets[i].url) # Undef
           THEN /\ gets'[i].pc = "responded"
                /\ gets'[i].out = CacheMatch(caches, CACHE_NAME, gets[i].url)
                /\ ~gets'[i].fetched
           ELSE gets'[i].pc = "fetch" /\ gets'[i].fetched

\* C13: static GET handling is cache-first with network fallback: an entry
\* found at the lookup is returned without a network fetch; on a miss the
\* network response is returned and is written to the cache only if it is
\* ok; a failed fetch with no cached entry gives 503 Service Unavailable; and
\* under every interleaving of GET requests no response that is not ok is
\* stored.
C13_CacheFirst ==
    /\ [](\A i \in Slots : StaticResponded(i) => StaticOutcome(i))
    /\ []OnlyOkStored
    /\ [][\A i \in Slots : LookupStep(i)]_vars

\* C13 witness: one request got 404 from the network, which was not stored,
\* while another, whose fetch failed, was served the entry that had been
\* stored since its first lookup.
C13_Witness ==
    \E i, j \in Slots :
        /\ i # j
        /\ StaticResponded(i)
        /\ gets[i].out.status = 404
        /\ StaticResponded(j)
        /\ gets[j].fetched
        /\ gets[j].networkResponse = Undef
        /\ gets[j].out = CacheMatch(caches, CACHE_NAME, gets[j].url)
        /\ gets[j].out # Undef

\* No cache with a name other than CACHE_NAME exists.
NoOtherCache == \A n \in CacheNames \ {CACHE_NAME} : ~caches[n].exists

\* A step of the activate listener leaves the current cache as it is.
ActivateStep ==
    (sw' # sw /\ (sw.pc = "deleting" \/ sw'.pc = "deleting"))
        => caches'[CACHE_NAME] = caches[CACHE_NAME]

\* C14: when the activate step completes every cache with a name other than
\* CACHE_NAME has been deleted and the current cache is left untouched, and
\* afterwards no install, activate or fetch event makes a cache with another
\* name exist again.
C14_OnlyCurrentCache ==
    /\ [](activated => NoOtherCache)
    /\ [][ActivateStep]_vars

\* C14 witness: activate has completed with the current cache and its
\* installed entries in place, and a GET is being answered from it.
C14_Witness ==
    /\ activated
    /\ NoOtherCache
    /\ caches[CACHE_NAME].exists
    /\ \A u \in StaticAssets : CacheMatch(caches, CACHE_NAME, u) # Undef
    /\ \E i \in Slots : StaticResponded(i) /\ ~gets[i].fetched
====
